---- MODULE Spec2Model ----
(***************************************************************************)
(* Model of program.py (3D holographic grating calculator): the linear     *)
(* pipeline of the __main__ block, the intensity calculator, the grating   *)
(* parameter calculator and the two matplotlib renderers.                  *)
(*                                                                         *)
(* Floating point values are modelled as extended numbers:                 *)
(*   NaN, +inf, -inf, and finite values  (n/d) * eps^e  where n/d is a     *)
(*   reduced fraction and eps stands for the rounding residue              *)
(*   cos(deg2rad(90)) = 6.1e-17 that IEEE doubles give where the exact     *)
(*   value would be zero.  Grade e = 0 is an ordinary number; e > 0 is a   *)
(*   non-zero value far below every ordinary number.  Arithmetic on        *)
(*   ordinary numbers is exact.                                            *)
(* Angles are modelled symbolically on the lattice a*gamma + b*90 degrees  *)
(* where gamma is the angle with sin = 3/5 and cos = 4/5, so that every    *)
(* sine, cosine, square root and arcsine the program takes on the modelled *)
(* inputs has an exact value.  Two sines or cosines that are equal         *)
(* mathematically are equal in the model, as the doubles are for 30 and    *)
(* 150 degrees; for pairs whose doubles differ in the last bit the program *)
(* computes a period of the order of wavelength / 1e-16 where the model    *)
(* has +inf.                                                               *)
(***************************************************************************)
EXTENDS Integers, Sequences, FiniteSets, TLC

(***************************************************************************)
(* Extended numbers                                                        *)
(***************************************************************************)
Unrepresentable == CHOOSE x \in {} : TRUE

AbsInt(i) == IF i < 0 THEN -i ELSE i

SignInt(i) == IF i < 0 THEN -1 ELSE IF i > 0 THEN 1 ELSE 0

RECURSIVE Gcd(_, _)
Gcd(a, b) == IF b = 0 THEN a ELSE Gcd(b, a % b)

NaN == [k |-> "nan"]

Inf(s) == [k |-> "inf", s |-> s]

\* the value (n/d) * eps^e, reduced; zero has the single form 0/1 * eps^0
Fin(n, d, e) ==
    IF n = 0 THEN [k |-> "fin", n |-> 0, d |-> 1, e |-> 0]
    ELSE LET g == Gcd(AbsInt(n), AbsInt(d))
             s == SignInt(d)
         IN  [k |-> "fin", n |-> (s * n) \div g, d |-> (s * d) \div g, e |-> e]

Rat(n, d) == Fin(n, d, 0)

Zero == Rat(0, 1)

IsNaN(x) == x.k = "nan"

IsInf(x) == x.k = "inf"

IsFin(x) == x.k = "fin"

IsZero(x) == IsFin(x) /\ x.n = 0

Sign(x) == IF IsInf(x) THEN x.s ELSE SignInt(x.n)

Neg(x) ==
    CASE IsNaN(x) -> NaN
      [] IsInf(x) -> Inf(-x.s)
      [] OTHER    -> Fin(-x.n, x.d, x.e)

\* np.abs
Abs(x) ==
    CASE IsNaN(x) -> NaN
      [] IsInf(x) -> Inf(1)
      [] OTHER    -> Fin(AbsInt(x.n), x.d, x.e)

\* IEEE multiplication: inf * 0 is NaN
Mul(x, y) ==
    CASE IsNaN(x) \/ IsNaN(y) -> NaN
      [] IsInf(x) \/ IsInf(y) ->
            IF IsZero(x) \/ IsZero(y) THEN NaN ELSE Inf(Sign(x) * Sign(y))
      [] OTHER ->
            IF x.n = 0 \/ y.n = 0 THEN Zero
            ELSE LET g1 == Gcd(AbsInt(x.n), y.d)
                     g2 == Gcd(AbsInt(y.n), x.d)
                 IN  Fin((x.n \div g1) * (y.n \div g2),
                         (x.d \div g2) * (y.d \div g1), x.e + y.e)

\* IEEE division as numpy scalars perform it: x/0 is +-inf, 0/0 is NaN, no exception
Div(x, y) ==
    CASE IsNaN(x) \/ IsNaN(y) -> NaN
      [] IsInf(x) -> IF IsInf(y) THEN NaN
                     ELSE Inf(x.s * (IF Sign(y) < 0 THEN -1 ELSE 1))
      [] IsInf(y) -> Zero
      [] IsZero(y) -> IF IsZero(x) THEN NaN ELSE Inf(Sign(x))
      [] OTHER -> Mul(x, Fin(y.d * SignInt(y.n), AbsInt(y.n), -y.e))

\* IEEE addition: inf + (-inf) is NaN; a term of higher grade is absorbed
Add(x, y) ==
    CASE IsNaN(x) \/ IsNaN(y) -> NaN
      [] IsInf(x) -> IF IsInf(y) /\ y.s # x.s THEN NaN ELSE x
      [] IsInf(y) -> y
      [] IsZero(x) -> y
      [] IsZero(y) -> x
      [] x.e < y.e -> x
      [] y.e < x.e -> y
      [] OTHER ->
            LET g == Gcd(x.d, y.d)
                l == (x.d \div g) * y.d
            IN  Fin(x.n * (l \div x.d) + y.n * (l \div y.d), l, x.e)

Sub(x, y) == Add(x, Neg(y))

\* x < y on finite numbers of grade 0 and infinities (false on NaN, like IEEE)
Less(x, y) == ~IsNaN(x) /\ ~IsNaN(y) /\ Sign(Sub(y, x)) > 0 /\ ~IsNaN(Sub(y, x))

Leq(x, y) == ~IsNaN(x) /\ ~IsNaN(y) /\ (x = y \/ Less(x, y))

\* |x| > 1 (false on NaN)
AbsGtOne(x) ==
    CASE IsNaN(x) -> FALSE
      [] IsInf(x) -> TRUE
      [] OTHER -> x.n # 0 /\ (x.e < 0 \/ (x.e = 0 /\ AbsInt(x.n) > x.d))

\* integer square root (floor), by bisection
RECURSIVE ISqrtIn(_, _, _)
ISqrtIn(n, lo, hi) ==
    IF hi - lo <= 1 THEN (IF hi * hi = n THEN hi ELSE lo)
    ELSE LET mid == (lo + hi) \div 2
         IN  IF mid <= n \div mid THEN ISqrtIn(n, mid, hi) ELSE ISqrtIn(n, lo, mid)

ISqrt(n) == IF n = 0 THEN 0 ELSE ISqrtIn(n, 1, IF n < 46340 THEN n ELSE 46340)

\* np.sqrt: exact on squares of representable numbers, NaN below zero
Sqrt(x) ==
    CASE IsNaN(x) -> NaN
      [] IsInf(x) -> IF x.s > 0 THEN x ELSE NaN
      [] x.n < 0 -> NaN
      [] OTHER ->
            LET rn == ISqrt(x.n)
                rd == ISqrt(x.d)
            IN  IF rn * rn = x.n /\ rd * rd = x.d /\ x.e % 2 = 0
                THEN Fin(rn, rd, x.e \div 2)
                ELSE Unrepresentable

(***************************************************************************)
(* Angles: the float a*gamma + b*90 degrees (u = "deg"), or the same angle *)
(* in radians (u = "rad"); sin(gamma) = 3/5, cos(gamma) = 4/5.             *)
(***************************************************************************)
Ang(a, b, u) == [k |-> "ang", a |-> a, b |-> b, u |-> u]

IsAng(x) == x.k = "ang"

\* np.deg2rad
Deg2Rad(x) ==
    CASE IsNaN(x) -> NaN
      [] IsAng(x) /\ x.u = "deg" -> Ang(x.a, x.b, "rad")
      [] OTHER -> Unrepresentable

\* np.rad2deg, np.degrees
Rad2Deg(x) ==
    CASE IsNaN(x) -> NaN
      [] IsAng(x) /\ x.u = "rad" -> Ang(x.a, x.b, "deg")
      [] OTHER -> Unrepresentable

\* x + y on two angles in degrees
AngAdd(x, y) ==
    CASE IsNaN(x) \/ IsNaN(y) -> NaN
      [] IsAng(x) /\ IsAng(y) /\ x.u = "deg" /\ y.u = "deg" -> Ang(x.a + y.a, x.b + y.b, "deg")
      [] OTHER -> Unrepresentable

\* x / 2 on an angle in degrees
AngHalf(x) ==
    CASE IsNaN(x) -> NaN
      [] IsAng(x) /\ x.a % 2 = 0 /\ x.b % 2 = 0 -> Ang(x.a \div 2, x.b \div 2, x.u)
      [] OTHER -> Unrepresentable

\* <<sin, cos>> of x + gamma from <<sin, cos>> of x
Rotate(p) ==
    <<Add(Mul(p[1], Rat(4, 5)), Mul(p[2], Rat(3, 5))),
      Sub(Mul(p[2], Rat(4, 5)), Mul(p[1], Rat(3, 5)))>>

\* <<sin, cos>> of -x from <<sin, cos>> of x
Mirror(p) == <<Neg(p[1]), p[2]>>

\* <<sin, cos>> of a*gamma, by a rotations through gamma
RECURSIVE SinCosGamma(_)
SinCosGamma(a) ==
    IF a = 0 THEN <<Zero, Rat(1, 1)>>
    ELSE IF a < 0 THEN Mirror(SinCosGamma(-a))
    ELSE Rotate(SinCosGamma(a - 1))

\* <<sin, cos>> of x + b*90 degrees from <<sin, cos>> of x
QuarterTurns(p, b) ==
    CASE b % 4 = 0 -> p
      [] b % 4 = 1 -> <<p[2], Neg(p[1])>>
      [] b % 4 = 2 -> <<Neg(p[1]), Neg(p[2])>>
      [] OTHER     -> <<Neg(p[2]), p[1]>>

\* At b*90 degrees the argument is the double b*fl(pi/2) = b*(pi/2 - eps), so
\* that where the exact value is zero the double is the residue:
\* cos(90) = eps, sin(180) = 2 eps, cos(270) = -3 eps.
Residue(p, b) ==
    <<IF IsZero(p[1]) THEN Mul(Fin(-b, 1, 1), p[2]) ELSE p[1],
      IF IsZero(p[2]) THEN Mul(Fin(b, 1, 1), p[1]) ELSE p[2]>>

\* <<np.sin, np.cos>> of an angle in radians
SinCos(x) ==
    IF x.a # 0 THEN QuarterTurns(SinCosGamma(x.a), x.b)
    ELSE Residue(QuarterTurns(SinCosGamma(0), x.b), x.b)

\* np.sin
Sin(x) ==
    CASE IsNaN(x) -> NaN
      [] IsAng(x) /\ x.u = "rad" -> SinCos(x)[1]
      [] OTHER -> Unrepresentable

\* np.cos
Cos(x) ==
    CASE IsNaN(x) -> NaN
      [] IsAng(x) /\ x.u = "rad" -> SinCos(x)[2]
      [] OTHER -> Unrepresentable

\* the angles of the lattice that lie in [-90, 90] degrees, the range of arcsin:
\* 0, +-gamma (36.87), +-2 gamma (73.74), +-(90 - gamma) (53.13),
\* +-(90 - 2 gamma) (16.26), +-(180 - 4 gamma) (32.52), +-90
PrincipalAngles ==
    {Ang(0, 0, "rad"),
     Ang(1, 0, "rad"), Ang(-1, 0, "rad"), Ang(2, 0, "rad"), Ang(-2, 0, "rad"),
     Ang(-1, 1, "rad"), Ang(1, -1, "rad"), Ang(-2, 1, "rad"), Ang(2, -1, "rad"),
     Ang(-4, 2, "rad"), Ang(4, -2, "rad"), Ang(0, 1, "rad"), Ang(0, -1, "rad")}

\* arcsin of the argument clipped into [-1, 1]
ArcsinClipped(x) ==
    CASE IsNaN(x) -> NaN
      [] AbsGtOne(x) -> IF Sign(x) > 0 THEN Ang(0, 1, "rad") ELSE Ang(0, -1, "rad")
      [] \E t \in PrincipalAngles : Sin(t) = x -> CHOOSE t \in PrincipalAngles : Sin(t) = x
      [] OTHER -> Unrepresentable

\* np.arcsin on a scalar: outside [-1, 1] the result is NaN (with a RuntimeWarning)
Arcsin(x) ==
    CASE IsNaN(x) -> NaN
      [] AbsGtOne(x) -> NaN
      [] \E t \in PrincipalAngles : Sin(t) = x -> CHOOSE t \in PrincipalAngles : Sin(t) = x
      [] OTHER -> Unrepresentable

\* whether np.arcsin(x) raises ValueError: never, under numpy's default error
\* state an invalid argument yields NaN and a RuntimeWarning
ArcsinRaisesValueError(x) == FALSE

(***************************************************************************)
(* calculate_grating_parameters                                            *)
(***************************************************************************)
BraggMessage == "Error: Bragg angle cannot be computed for the given parameters"

\* the Bragg angle with the argument clipped into the domain of arcsin
BraggAngleClipped(arg) == [value |-> Rad2Deg(ArcsinClipped(arg)), out |-> <<>>]

\* try: np.rad2deg(np.arcsin(arg))  except ValueError: print(...); nan
BraggAngle(arg) ==
    IF ArcsinRaisesValueError(arg)
    THEN [value |-> NaN, out |-> <<BraggMessage>>]
    ELSE [value |-> Rad2Deg(Arcsin(arg)), out |-> <<>>]

\* the period with a NaN frequency treated like a zero frequency
PeriodNaNAsZero(f) == IF IsZero(f) \/ IsNaN(f) THEN Inf(1) ELSE Div(Rat(1, 1), f)

\* 1 / f if f != 0 else float('inf')   (NaN != 0 is true)
Period(f) == IF ~IsZero(f) THEN Div(Rat(1, 1), f) ELSE Inf(1)

\* np.sqrt(freq_z ** 2 + freq_y ** 2)
Magnitude(freq_z, freq_y) == Sqrt(Add(Mul(freq_z, freq_z), Mul(freq_y, freq_y)))

\* psi = (a_S + a_R) / 2, in degrees
TiltAngle(a_S, a_R) == AngHalf(AngAdd(a_S, a_R))

\* d = d_y * np.cos(np.deg2rad(psi))
TiltedPeriod(d_y, psi) == Mul(d_y, Cos(Deg2Rad(psi)))

\* wavelength / (2 * n * d)
BraggArgument(wavelength, n, d) == Div(wavelength, Mul(Mul(Rat(2, 1), n), d))

\* the locals of one branch, from its axis frequencies and its tilt angle
BranchWithD(freq_y, freq_z, freq, d_y, d_z, psi, d, wavelength, n) ==
    [freq_y |-> freq_y, freq_z |-> freq_z, freq |-> freq, d_y |-> d_y, d_z |-> d_z,
     psi |-> psi, d |-> d, bragg |-> BraggAngle(BraggArgument(wavelength, n, d))]

BranchWithPeriods(freq_y, freq_z, freq, d_y, d_z, psi, wavelength, n) ==
    BranchWithD(freq_y, freq_z, freq, d_y, d_z, psi, TiltedPeriod(d_y, psi), wavelength, n)

Branch(freq_y, freq_z, psi, wavelength, n) ==
    BranchWithPeriods(freq_y, freq_z, Magnitude(freq_z, freq_y), Period(freq_y),
                      Period(freq_z), psi, wavelength, n)

\* the air branch, lines 44-62
AirBranch(wavelength, theta_R, theta_S, n_1) ==
    Branch(Div(Sub(Sin(Deg2Rad(theta_S)), Sin(Deg2Rad(theta_R))), wavelength),
           Div(Sub(Cos(Deg2Rad(theta_S)), Cos(Deg2Rad(theta_R))), wavelength),
           TiltAngle(theta_S, theta_R), wavelength, n_1)

\* Snell's law: np.arcsin(n_1 / n_2 * np.sin(theta_rad))
Snell(n_1, n_2, theta) == Arcsin(Mul(Div(n_1, n_2), Sin(Deg2Rad(theta))))

\* the medium branch from the two refracted angles, lines 70-88
MediumFrom(psi_R_rad, psi_S_rad, wavelength, n_2) ==
    Branch(Div(Mul(Sub(Sin(psi_S_rad), Sin(psi_R_rad)), n_2), wavelength),
           Div(Mul(Sub(Cos(psi_S_rad), Cos(psi_R_rad)), n_2), wavelength),
           TiltAngle(Rad2Deg(psi_S_rad), Rad2Deg(psi_R_rad)), wavelength, n_2)

\* the medium branch, lines 66-88
MediumBranch(wavelength, theta_R, theta_S, n_1, n_2) ==
    MediumFrom(Snell(n_1, n_2, theta_R), Snell(n_1, n_2, theta_S), wavelength, n_2)

\* the sub-record with the axis frequencies left in lines/micron
BranchRecordAxisUnits(br) ==
    [period      |-> Abs(br.d),
     period_y    |-> Abs(br.d_y),
     period_z    |-> Abs(br.d_z),
     frequency   |-> Abs(Mul(br.freq, Rat(1000, 1))),
     frequency_y |-> Abs(br.freq_y),
     frequency_z |-> Abs(br.freq_z),
     tilt_angle  |-> br.psi,
     bragg_angle |-> br.bragg.value]

\* the sub-record returned for one branch (lines 91-110): frequencies in lines/mm
BranchRecord(br) ==
    [period      |-> Abs(br.d),
     period_y    |-> Abs(br.d_y),
     period_z    |-> Abs(br.d_z),
     frequency   |-> Abs(Mul(br.freq, Rat(1000, 1))),
     frequency_y |-> Abs(Mul(br.freq_y, Rat(1000, 1))),
     frequency_z |-> Abs(Mul(br.freq_z, Rat(1000, 1))),
     tilt_angle  |-> br.psi,
     bragg_angle |-> br.bragg.value]

\* n_1 / n_2 on two Python floats raises ZeroDivisionError when n_2 is zero
GratingRaises(wavelength, theta_R, theta_S, n_1, n_2) == IsZero(n_2)

\* the returned record of the two branches, and what the two try blocks printed
Returned(air, medium) ==
    [air |-> BranchRecord(air), medium |-> BranchRecord(medium),
     out |-> air.bragg.out \o medium.bragg.out]

calculate_grating_parameters(wavelength, theta_R, theta_S, n_1, n_2) ==
    Returned(AirBranch(wavelength, theta_R, theta_S, n_1),
             MediumBranch(wavelength, theta_R, theta_S, n_1, n_2))

(***************************************************************************)
(* get_size and calculate_intensity.  Wave numbers and phases are held in  *)
(* units of pi: k = 2*pi/wavelength is the number 2/wavelength.            *)
(***************************************************************************)
scale == 1

\* grid points per unit length, 1/step (the program's step is 0.01)
StepsPerUnit == 2

step == Rat(1, StepsPerUnit)

\* np.arange(-scale, scale, step)
Arange == [i \in 1..(2 * scale * StepsPerUnit) |-> Add(Rat(-scale, 1), Mul(Rat(i - 1, 1), step))]

\* np.meshgrid(x, y): X[i][j] = x[j], Y[i][j] = y[i]
get_size ==
    LET x == Arange
        y == Arange
    IN  [X |-> [i \in 1..Len(y) |-> [j \in 1..Len(x) |-> x[j]]],
         Y |-> [i \in 1..Len(y) |-> [j \in 1..Len(x) |-> y[i]]]]

Shape(A) == <<Len(A), IF Len(A) = 0 THEN 0 ELSE Len(A[1])>>

\* (1 - 4u^2) / (1 + u^2), the rational value taken for cos(pi*u) on |u| <= 1/2:
\* exact at u = 0, 1/3, 1/2, within 0.002 of the cosine elsewhere
CosHalfPeriod(u) ==
    LET uu == Mul(u, u)
    IN  Div(Sub(Rat(1, 1), Mul(Rat(4, 1), uu)), Add(Rat(1, 1), uu))

\* np.cos of the phase pi*t: NaN at NaN and at +-inf, else a value in [-1, 1].
\* The phase is reduced to [-pi, pi) and read off a table with 24 entries per
\* period (the phase rounded down to a multiple of pi/12).
CosPi(t) ==
    CASE IsNaN(t) \/ IsInf(t) -> NaN
      [] IsZero(t) \/ t.e > 0 -> Rat(1, 1)
      [] t.e < 0 -> Unrepresentable
      [] OTHER ->
            LET turns == (t.n + t.d) \div (2 * t.d)
                r == Rat(t.n - 2 * t.d * turns, t.d)
                u == Rat((r.n * 12) \div r.d, 12)
            IN  IF Leq(Abs(u), Rat(1, 2)) THEN CosHalfPeriod(u)
                ELSE Neg(CosHalfPeriod(Sub(Abs(u), Rat(1, 1))))

\* lines 22-26 with k_Sz taken from the sine
WaveVectorsSineSz(wavelength, theta_R, theta_S) ==
    LET k == Div(Rat(2, 1), wavelength)
    IN  [k_Rx |-> Mul(k, Sin(Deg2Rad(theta_R))), k_Rz |-> Mul(k, Cos(Deg2Rad(theta_R))),
         k_Sx |-> Mul(k, Sin(Deg2Rad(theta_S))), k_Sz |-> Mul(k, Sin(Deg2Rad(theta_S)))]

\* the wave vectors of lines 22-26
WaveVectors(wavelength, theta_R, theta_S) ==
    LET k == Div(Rat(2, 1), wavelength)
    IN  [k_Rx |-> Mul(k, Sin(Deg2Rad(theta_R))), k_Rz |-> Mul(k, Cos(Deg2Rad(theta_R))),
         k_Sx |-> Mul(k, Sin(Deg2Rad(theta_S))), k_Sz |-> Mul(k, Cos(Deg2Rad(theta_S)))]

\* phase_diff at one grid point
PhaseDiff(w, x, y) == Add(Mul(Sub(w.k_Rx, w.k_Sx), x), Mul(Sub(w.k_Rz, w.k_Sz), y))

\* the amplitudes summed as cos + 2
IntensityAtWrongAmplitude(phase) ==
    LET a == Add(CosPi(phase), Rat(2, 1)) IN Mul(a, a)

\* (np.cos(phase_diff) + 1) ** 2 at one grid point
IntensityAt(phase) ==
    LET a == Add(CosPi(phase), Rat(1, 1)) IN Mul(a, a)

\* 2 * np.pi / wavelength on Python floats raises ZeroDivisionError at zero
IntensityRaises(wavelength) == IsZero(wavelength)

calculate_intensity(X, Y, wavelength, theta_R, theta_S) ==
    LET w == WaveVectors(wavelength, theta_R, theta_S)
    IN  [i \in 1..Len(X) |-> [j \in 1..Len(X[i]) |-> IntensityAt(PhaseDiff(w, X[i][j], Y[i][j]))]]

(***************************************************************************)
(* The __main__ pipeline                                                   *)
(***************************************************************************)
VARIABLES pc, wavelength, theta_R, theta_S, n_1, n_2, X, Y, I_air, I_medium,
          params, figs, files, shown, stdout, err, log

vars == <<pc, wavelength, theta_R, theta_S, n_1, n_2, X, Y, I_air, I_medium,
          params, figs, files, shown, stdout, err, log>>

\* a name not yet bound
None == [k |-> "none"]

\* float(text) for the texts typed in the model; any other text raises ValueError.
\* 73.74 stands for 2*gamma and 106.26 for 180 - 2*gamma.
FloatOf ==
    [t \in {"0", "0.5", "0.56", "1", "-1", "0.0", "73.74", "-73.74", "106.26", "-106.26"} |->
        CASE t = "0"       -> Zero
          [] t = "0.5"     -> Rat(1, 2)
          [] t = "0.56"    -> Rat(14, 25)
          [] t = "1"       -> Rat(1, 1)
          [] t = "-1"      -> Rat(-1, 1)
          [] t = "0.0"     -> Ang(0, 0, "deg")
          [] t = "73.74"   -> Ang(2, 0, "deg")
          [] t = "-73.74"  -> Ang(-2, 0, "deg")
          [] t = "106.26"  -> Ang(-2, 2, "deg")
          [] t = "-106.26" -> Ang(2, -2, "deg")]

FloatRaises(t) == t \notin DOMAIN FloatOf

\* what the user may type at each prompt
Typed(p) ==
    CASE p = "wavelength" -> {"0", "0.5", "1", "-1", "abc"}
      [] p \in {"theta_R", "theta_S"} -> {"0.0", "73.74", "-73.74", "106.26", "-106.26", "abc"}
      [] OTHER -> {"0", "0.56", "1", "abc"}

InputNames == {"wavelength", "theta_R", "theta_S", "n_1", "n_2"}

\* the statement order with create_graphs called before create_table_image
SuccGraphsFirst(p) ==
    CASE p = "wavelength"  -> "theta_R"
      [] p = "theta_R"     -> "theta_S"
      [] p = "theta_S"     -> "n_1"
      [] p = "n_1"         -> "n_2"
      [] p = "n_2"         -> "get_size"
      [] p = "get_size"    -> "I_air"
      [] p = "I_air"       -> "I_medium"
      [] p = "I_medium"    -> "params"
      [] p = "params"      -> "create_graphs"
      [] p = "create_graphs" -> "create_table_image"
      [] p = "create_table_image" -> "show"
      [] OTHER             -> "done"

\* the statement that follows statement p in input_data and in __main__
Succ(p) ==
    CASE p = "wavelength"  -> "theta_R"
      [] p = "theta_R"     -> "theta_S"
      [] p = "theta_S"     -> "n_1"
      [] p = "n_1"         -> "n_2"
      [] p = "n_2"         -> "get_size"
      [] p = "get_size"    -> "I_air"
      [] p = "I_air"       -> "I_medium"
      [] p = "I_medium"    -> "params"
      [] p = "params"      -> "create_table_image"
      [] p = "create_table_image" -> "create_graphs"
      [] p = "create_graphs" -> "show"
      [] OTHER             -> "done"

TableFile == "results_table.png"

GraphsFile == "results_table.png"

\* plt.savefig(name): the current figure (the one created last) is written to
\* name, replacing a file of that name
SaveFig(fs, open, name) == {f \in fs : f[1] # name} \cup {<<name, open[Len(open)]>>}

\* the titles formatted without the two divisions
GraphsNeverRaises(a, b) == FALSE

\* the titles of create_graphs format wavelength/n_1 and wavelength/n_2 on Python
\* floats: ZeroDivisionError at a zero index
GraphsRaises(a, b) == IsZero(a) \/ IsZero(b)

Raise(e) ==
    /\ pc' = "failed"
    /\ err' = e

Init ==
    /\ pc = "wavelength"
    /\ wavelength = None /\ theta_R = None /\ theta_S = None
    /\ n_1 = None /\ n_2 = None
    /\ X = None /\ Y = None /\ I_air = None /\ I_medium = None
    /\ params = None
    /\ figs = <<>>
    /\ files = {}
    /\ shown = <<>>
    /\ stdout = <<>>
    /\ err = "none"
    /\ log = <<>>

\* one line of input_data: name = float(input(prompt))
ReadInput ==
    /\ pc \in InputNames
    /\ \E t \in Typed(pc) :
         /\ stdout' = Append(stdout, "prompt:" \o pc)
         /\ IF FloatRaises(t)
            THEN /\ Raise("ValueError")
                 /\ UNCHANGED <<wavelength, theta_R, theta_S, n_1, n_2, log>>
            ELSE /\ pc' = Succ(pc)
                 /\ err' = err
                 /\ log' = Append(log, "input:" \o pc)
                 /\ wavelength' = IF pc = "wavelength" THEN FloatOf[t] ELSE wavelength
                 /\ theta_R' = IF pc = "theta_R" THEN FloatOf[t] ELSE theta_R
                 /\ theta_S' = IF pc = "theta_S" THEN FloatOf[t] ELSE theta_S
                 /\ n_1' = IF pc = "n_1" THEN FloatOf[t] ELSE n_1
                 /\ n_2' = IF pc = "n_2" THEN FloatOf[t] ELSE n_2
    /\ UNCHANGED <<X, Y, I_air, I_medium, params, figs, files, shown>>

\* X, Y = get_size()
GetSize ==
    /\ pc = "get_size"
    /\ X' = get_size.X
    /\ Y' = get_size.Y
    /\ pc' = Succ(pc)
    /\ log' = Append(log, "get_size")
    /\ UNCHANGED <<wavelength, theta_R, theta_S, n_1, n_2, I_air, I_medium,
                   params, figs, files, shown, stdout, err>>

\* I_air = calculate_intensity(X, Y, wavelength, theta_R, theta_S)
IntensityAir ==
    /\ pc = "I_air"
    /\ IF IntensityRaises(wavelength)
       THEN /\ Raise("ZeroDivisionError")
            /\ UNCHANGED <<I_air, log>>
       ELSE /\ I_air' = calculate_intensity(X, Y, wavelength, theta_R, theta_S)
            /\ pc' = Succ(pc)
            /\ err' = err
            /\ log' = Append(log, "intensity:air")
    /\ UNCHANGED <<wavelength, theta_R, theta_S, n_1, n_2, X, Y, I_medium,
                   params, figs, files, shown, stdout>>

\* I_medium = calculate_intensity(X, Y, wavelength / n_2, theta_R, theta_S):
\* wavelength / n_2 divides two Python floats
IntensityMedium ==
    /\ pc = "I_medium"
    /\ IF IsZero(n_2) \/ IntensityRaises(Div(wavelength, n_2))
       THEN /\ Raise("ZeroDivisionError")
            /\ UNCHANGED <<I_medium, log>>
       ELSE /\ I_medium' = calculate_intensity(X, Y, Div(wavelength, n_2), theta_R, theta_S)
            /\ pc' = Succ(pc)
            /\ err' = err
            /\ log' = Append(log, "intensity:medium")
    /\ UNCHANGED <<wavelength, theta_R, theta_S, n_1, n_2, X, Y, I_air,
                   params, figs, files, shown, stdout>>

\* the call's effects: the record bound to params, its prints on stdout
Return(r) ==
    /\ params' = [air |-> r.air, medium |-> r.medium]
    /\ stdout' = stdout \o r.out

\* params = calculate_grating_parameters(wavelength, theta_R, theta_S, n_1, n_2)
GratingParameters ==
    /\ pc = "params"
    /\ IF GratingRaises(wavelength, theta_R, theta_S, n_1, n_2)
       THEN /\ Raise("ZeroDivisionError")
            /\ UNCHANGED <<params, stdout, log>>
       ELSE /\ Return(calculate_grating_parameters(wavelength, theta_R, theta_S, n_1, n_2))
            /\ pc' = Succ(pc)
            /\ err' = err
            /\ log' = Append(log, "grating_parameters")
    /\ UNCHANGED <<wavelength, theta_R, theta_S, n_1, n_2, X, Y, I_air, I_medium,
                   figs, files, shown>>

\* create_table_image(params, n_1, n_2): a new figure holding the table, saved
CreateTableImage ==
    /\ pc = "create_table_image"
    /\ figs' = Append(figs, "table")
    /\ files' = SaveFig(files, figs', TableFile)
    /\ pc' = Succ(pc)
    /\ log' = log \o <<"render:table", "save:table">>
    /\ UNCHANGED <<wavelength, theta_R, theta_S, n_1, n_2, X, Y, I_air, I_medium,
                   params, shown, stdout, err>>

\* create_graphs(wavelength, theta_R, theta_S, n_1, n_2): a new figure; the first
\* title is formatted after the figure is created and before anything is saved
CreateGraphs ==
    /\ pc = "create_graphs"
    /\ figs' = Append(figs, "graphs")
    /\ IF GraphsRaises(n_1, n_2)
       THEN /\ Raise("ZeroDivisionError")
            /\ UNCHANGED <<files, log>>
       ELSE /\ files' = SaveFig(files, figs', GraphsFile)
            /\ pc' = Succ(pc)
            /\ err' = err
            /\ log' = log \o <<"render:graphs", "save:graphs">>
    /\ UNCHANGED <<wavelength, theta_R, theta_S, n_1, n_2, X, Y, I_air, I_medium,
                   params, shown, stdout>>

\* plt.show(): every open figure is displayed
Show ==
    /\ pc = "show"
    /\ shown' = figs
    /\ pc' = Succ(pc)
    /\ log' = Append(log, "show")
    /\ UNCHANGED <<wavelength, theta_R, theta_S, n_1, n_2, X, Y, I_air, I_medium,
                   params, figs, files, stdout, err>>

Next ==
    \/ ReadInput
    \/ GetSize
    \/ IntensityAir
    \/ IntensityMedium
    \/ GratingParameters
    \/ CreateTableImage
    \/ CreateGraphs
    \/ Show

Spec == Init /\ [][Next]_vars

(***************************************************************************)
(* Properties                                                              *)
(***************************************************************************)
Four == Rat(4, 1)

Thousand == Rat(1000, 1)

Elements(A) == {A[i][j] : i \in 1..Len(A), j \in 1..Len(A[1])}

\* how often the Bragg diagnostic is on stdout
Diagnostics == Cardinality({i \in DOMAIN stdout : stdout[i] = BraggMessage})

\* the Bragg arcsine argument of a returned branch is outside [-1, 1]
AirOutOfDomain == AbsGtOne(BraggArgument(wavelength, n_1, params.air.period))

MediumOutOfDomain == AbsGtOne(BraggArgument(wavelength, n_2, params.medium.period))

Returns == params # None

\* C1: after a run that completes, the working directory holds two image files
\* under two different names, one with the plots and one with the table.
C1_TwoImageFiles ==
    pc = "done" =>
        \E f \in files, g \in files : f[1] # g[1] /\ f[2] = "graphs" /\ g[2] = "table"

\* C2: for each branch, a Bragg argument outside [-1, 1] prints the diagnostic
\* exactly once for that branch and yields NaN, the record is still returned;
\* an argument inside [-1, 1] prints nothing.
C2_DiagnosticPrinted ==
    Returns =>
        /\ Diagnostics = (IF AirOutOfDomain THEN 1 ELSE 0) + (IF MediumOutOfDomain THEN 1 ELSE 0)
        /\ AirOutOfDomain => IsNaN(params.air.bragg_angle)
        /\ MediumOutOfDomain => IsNaN(params.medium.bragg_angle)

\* C3: in every returned record, a branch whose |wavelength/(2*n*d)| exceeds 1
\* has bragg_angle NaN.
C3_BraggNaN ==
    Returns =>
        /\ AirOutOfDomain => IsNaN(params.air.bragg_angle)
        /\ MediumOutOfDomain => IsNaN(params.medium.bragg_angle)

C3_Witness ==
    /\ Returns
    /\ AirOutOfDomain
    /\ ~IsZero(n_1)
    /\ IsNaN(params.air.bragg_angle)
    /\ ~IsNaN(params.medium.bragg_angle)

\* all five inputs were read, the wavelength is a non-zero number and one of the
\* refractive indices is zero
ZeroIndexRun ==
    /\ IsFin(n_1) /\ IsFin(n_2)
    /\ IsFin(wavelength) /\ ~IsZero(wavelength)
    /\ IsZero(n_1) \/ IsZero(n_2)

\* C4 as claimed: a run with a zero index never completes, returns no result
\* record and writes neither image file.
C4_NoRecordNoImage ==
    ZeroIndexRun =>
        /\ pc # "done"
        /\ params = None
        /\ files = {}

\* C4 as amended: a run with a zero index never completes: it is at a statement
\* up to create_graphs or has failed with ZeroDivisionError; it never saves the
\* plot figure and never shows the window; with n_2 = 0 it fails before a
\* record is returned or a figure is created; with n_1 = 0 and n_2 # 0 it fails
\* in create_graphs, after the record was returned and the table image written.
C4_ZeroIndexFails ==
    ZeroIndexRun =>
        /\ pc \in {"get_size", "I_air", "I_medium", "params", "create_table_image",
                   "create_graphs", "failed"}
        /\ IsZero(n_2) => pc \in {"get_size", "I_air", "I_medium", "failed"}
        /\ shown = <<>>
        /\ \A f \in files : f[2] # "graphs"
        /\ pc = "failed" => err = "ZeroDivisionError"
        /\ IsZero(n_2) => params = None /\ files = {} /\ figs = <<>>
        /\ (~IsZero(n_2) /\ pc = "failed") =>
              /\ Returns
              /\ files = {<<TableFile, "table">>}
              /\ figs = <<"table", "graphs">>

C4_Witness ==
    /\ ZeroIndexRun
    /\ pc = "failed"
    /\ IsZero(n_1) /\ ~IsZero(n_2)
    /\ theta_R # theta_S
    /\ Returns
    /\ files = {<<TableFile, "table">>}

Positive(x) == IsFin(x) /\ Sign(x) > 0

\* C5: with wavelength > 0 and theta_R = theta_S both wave-vector differences
\* are zero and the intensity is 4 at every grid point.
C5_EqualAngles ==
    /\ (I_air # None /\ theta_R = theta_S /\ Positive(wavelength)) =>
          /\ Sub(WaveVectors(wavelength, theta_R, theta_S).k_Rx,
                 WaveVectors(wavelength, theta_R, theta_S).k_Sx) = Zero
          /\ Sub(WaveVectors(wavelength, theta_R, theta_S).k_Rz,
                 WaveVectors(wavelength, theta_R, theta_S).k_Sz) = Zero
          /\ Elements(I_air) = {Four}
    /\ (I_medium # None /\ theta_R = theta_S /\ Positive(Div(wavelength, n_2))) =>
          Elements(I_medium) = {Four}

C5_Witness ==
    /\ I_medium # None
    /\ theta_R = theta_S
    /\ theta_R # Ang(0, 0, "deg")
    /\ Positive(wavelength) /\ Positive(n_2)
    /\ Elements(I_air) = {Four}
    /\ Elements(I_medium) = {Four}

\* period [microns] and frequency [lines/mm] of one axis are reciprocal: the
\* product is 1000 at a non-zero frequency, the period is +inf at frequency 0
\* (and NaN where the frequency is NaN)
Reciprocal(period, frequency) ==
    CASE IsZero(frequency) -> period = Inf(1)
      [] IsNaN(frequency)  -> IsNaN(period)
      [] OTHER             -> Mul(period, frequency) = Thousand

\* C6: in the returned record, for each branch and each axis, period and
\* frequency are reciprocal in matching units; a zero frequency goes with an
\* infinite period.
C6_AxisReciprocal ==
    Returns =>
        /\ Reciprocal(params.air.period_y, params.air.frequency_y)
        /\ Reciprocal(params.air.period_z, params.air.frequency_z)
        /\ Reciprocal(params.medium.period_y, params.medium.frequency_y)
        /\ Reciprocal(params.medium.period_z, params.medium.frequency_z)

C6_Witness ==
    /\ Returns
    /\ IsFin(params.air.frequency_y) /\ ~IsZero(params.air.frequency_y)
    /\ IsFin(params.air.frequency_z) /\ ~IsZero(params.air.frequency_z)
    /\ IsFin(params.medium.frequency_y) /\ ~IsZero(params.medium.frequency_y)
    /\ IsZero(params.medium.frequency_z)
    /\ params.medium.period_z = Inf(1)

FullOrder ==
    <<"input:wavelength", "input:theta_R", "input:theta_S", "input:n_1", "input:n_2",
      "get_size", "intensity:air", "intensity:medium", "grating_parameters",
      "render:table", "save:table", "render:graphs", "save:graphs", "show">>

\* C7: the steps a run has executed are always an initial part of the one fixed
\* order: the five inputs, the grid, the air and the medium intensity, the
\* grating parameters, the table rendered and saved, the plots rendered and
\* saved, the window shown; a completed run has executed all of them.
C7_FixedOrder ==
    /\ Len(log) <= Len(FullOrder)
    /\ \A i \in 1..Len(log) : log[i] = FullOrder[i]
    /\ pc = "done" => log = FullOrder
    /\ shown # <<>> => pc = "done"

C7_Witness ==
    /\ pc = "done"
    /\ log = FullOrder
    /\ shown = <<"table", "graphs">>

InRange(e) == Leq(Zero, e) /\ Leq(e, Four)

\* C8: each intensity field has the shape of the grid and every element lies
\* in [0, 4], for the air and for the medium evaluation.
C8_IntensityRange ==
    /\ I_air # None =>
          /\ Shape(I_air) = Shape(X)
          /\ \A e \in Elements(I_air) : InRange(e)
    /\ I_medium # None =>
          /\ Shape(I_medium) = Shape(X)
          /\ \A e \in Elements(I_medium) : InRange(e)

C8_Witness ==
    /\ I_medium # None
    /\ \E e \in Elements(I_medium) : Less(Zero, e) /\ Less(e, Four)
    /\ Zero \in Elements(I_air)
    /\ Four \in Elements(I_air)
    /\ Sign(wavelength) < 0

\* the overall period and frequency of a branch are reciprocal
OverallReciprocal(br) ==
    CASE IsZero(br.frequency) -> br.period = Inf(1)
      [] IsNaN(br.frequency)  -> TRUE
      [] OTHER                -> Mul(br.period, br.frequency) = Thousand

\* C9: in the returned record, for each branch, period * frequency = 1000 when
\* the frequency magnitude is non-zero and the period is +inf when it is zero,
\* for every pair of angles, those with a bisector of +-90 degrees included.
C9_OverallReciprocal ==
    Returns => OverallReciprocal(params.air) /\ OverallReciprocal(params.medium)

\* one of the two Snell arcsine arguments is outside [-1, 1]
TotalReflection(n) ==
    \/ AbsGtOne(Mul(Div(n_1, n), Sin(Deg2Rad(theta_R))))
    \/ AbsGtOne(Mul(Div(n_1, n), Sin(Deg2Rad(theta_S))))

AllNaN(br) ==
    /\ IsNaN(br.period) /\ IsNaN(br.period_y) /\ IsNaN(br.period_z)
    /\ IsNaN(br.frequency) /\ IsNaN(br.frequency_y) /\ IsNaN(br.frequency_z)
    /\ IsNaN(br.tilt_angle) /\ IsNaN(br.bragg_angle)

\* C10: when a Snell arcsine is out of domain the record is returned with no
\* diagnostic for it, all eight medium values are NaN, and the air values are
\* those returned for the same wavelength, angles and n_1 with any in-domain n_2.
C10_TotalReflection ==
    (Returns /\ TotalReflection(n_2)) =>
        /\ AllNaN(params.medium)
        /\ Diagnostics = 0
        /\ \A t \in {"0.56", "1"} :
              ~TotalReflection(FloatOf[t]) =>
                 calculate_grating_parameters(wavelength, theta_R, theta_S, n_1, FloatOf[t]).air
                    = params.air

C10_Witness ==
    /\ Returns
    /\ TotalReflection(n_2)
    /\ ~TotalReflection(n_1)
    /\ AllNaN(params.medium)
    /\ ~IsNaN(params.air.bragg_angle)
    /\ pc = "done"

====
